---- MODULE Spec2Model ----
(***************************************************************************)
(* Credential pool of the OpenAI-compatible Gemini gateway                 *)
(* (src/api_server.py): CookieConfig, CookieManager and the requests that  *)
(* call CookieManager.get_client concurrently on one asyncio event loop;   *)
(* and the dispatcher on top of it: create_chat_completion, its stream     *)
(* generator generate_stream_response, and GET /cookies/status.            *)
(*                                                                         *)
(* A coroutine runs without interruption between two awaits, so one action *)
(* is one such uninterrupted stretch.  The only await inside               *)
(* CookieManager.get_client is `await self.client.init(...)` (line 106).   *)
(* The GeminiClient constructor only stores its arguments and cannot fail; *)
(* the awaited init is the fallible backend handshake.                     *)
(***************************************************************************)
EXTENDS Integers, Sequences, FiniteSets, Bags

\* ------------------------------------------------------------------ bounds
MaxCookies == 2      \* largest pool that load_cookies_from_env produced
MaxTasks == 2        \* requests in flight at the same time
MaxTime == 2         \* largest value time.time() returns
MaxMarks == 3        \* cap on error_count for mark_error called by a harness
MaxText == 5         \* longest response.text of a generation
MaxJson == 2         \* most entries in the COOKIES_JSON array
MaxSlots == 3        \* highest i with COOKIE_<i>_PSID set
MaxMessages == 2     \* most messages in a chat completion request

\* --------------------------------------------------------- program constants
max_errors == 3      \* CookieConfig.max_errors

None == 0            \* Python None where a cookie is expected (cookies are 1..N)
NoClient == "None"   \* Python None in CookieConfig.client

\* the tags passed to CookieManager.get_client: the three it recognises (lines
\* 209-216) and "least_recently_used", which it does not and which stands for
\* every tag that falls to the else branch
Strategies == {"round_robin", "random", "least_used", "least_recently_used"}

VARIABLES
    cookies,         \* CookieManager.cookies: sequence of CookieConfig records
    current_index,   \* CookieManager.current_index
    inflight,        \* the requests suspended at `await self.client.init(...)`
    event,           \* history: the operation performed by the last step
    picks,           \* history: round-robin selections made since load, while `stayed`
                     \* (in SpecRotation: the least-used selections of the loop)
    stayed,          \* history: every cookie has been available since load
    status,          \* what get_status returned in the last step: <<>> or <<dict>>
    req,             \* the chat-completion request being served by the dispatcher
    boot             \* history: the environment load_cookies_from_env read, and its outcome

vars == <<cookies, current_index, inflight, event, picks, stayed, status, req, boot>>

\* ------------------------------------------------------------ CookieConfig
\* client: NoClient, or the state of the GeminiClient object held in self.client:
\* "constructed" (init in flight), "ready" (init returned), "failed" (init raised);
\* id: the identity of the CookieConfig object, its position in the load
NewCookie(i) ==
    [id |-> i, client |-> NoClient, is_available |-> TRUE, last_used |-> 0, error_count |-> 0]

mark_error_no_threshold(cs, c) ==
    [cs EXCEPT ![c].error_count = @ + 1]

mark_error_off_by_one(cs, c) ==
    LET n == cs[c].error_count + 1
    IN  [cs EXCEPT ![c].error_count = n,
                   ![c].is_available = IF n > max_errors THEN FALSE ELSE @]

mark_error_lost(cs, c) == cs

mark_error(cs, c) ==
    LET n == cs[c].error_count + 1
    IN  [cs EXCEPT ![c].error_count = n,
                   ![c].is_available = IF n >= max_errors THEN FALSE ELSE @]

mark_success_keeps_count(cs, c, t) ==
    [cs EXCEPT ![c].is_available = TRUE, ![c].last_used = t]

mark_success_moves_to_front(cs, c, t) ==
    LET used == [cs[c] EXCEPT !.error_count = 0, !.is_available = TRUE, !.last_used = t]
    IN  <<used>> \o SubSeq(cs, 1, c - 1) \o SubSeq(cs, c + 1, Len(cs))

mark_success_keeps_time(cs, c, t) ==
    [cs EXCEPT ![c].error_count = 0, ![c].is_available = TRUE]

mark_success(cs, c, t) ==
    [cs EXCEPT ![c].error_count = 0, ![c].is_available = TRUE, ![c].last_used = t]

\* ----------------------------------------------------------- CookieManager
get_available_cookies_unfiltered(cs) ==
    [i \in 1..Len(cs) |-> i]

\* the indices (load order) of the cookies with is_available
get_available_cookies(cs) ==
    LET F[i \in 0..Len(cs)] ==
            IF i = 0 THEN <<>>
            ELSE IF cs[i].is_available THEN Append(F[i - 1], i) ELSE F[i - 1]
    IN  F[Len(cs)]

get_next_cookie_stuck(cs, idx) ==
    LET av == get_available_cookies(cs)
    IN  IF av = <<>> THEN [cookie |-> None, current_index |-> idx]
        ELSE [cookie |-> av[(idx % Len(av)) + 1], current_index |-> idx % Len(av)]

get_next_cookie_wraps_at_pool_size(cs, idx) ==
    LET av == get_available_cookies(cs)
    IN  IF av = <<>> THEN [cookie |-> None, current_index |-> idx]
        ELSE [cookie |-> av[(idx % Len(av)) + 1],
              current_index |-> (idx + 1) % Len(cs)]

get_next_cookie(cs, idx) ==
    LET av == get_available_cookies(cs)
    IN  IF av = <<>> THEN [cookie |-> None, current_index |-> idx]
        ELSE [cookie |-> av[(idx % Len(av)) + 1],
              current_index |-> (idx + 1) % Len(av)]

\* random.choice: any element of the filtered list
get_random_cookie(cs) ==
    LET av == get_available_cookies(cs)
    IN  IF av = <<>> THEN {None} ELSE {av[i] : i \in 1..Len(av)}

\* min(..., key=last_used): the first element with the least key
get_least_used_cookie_last_tie(cs) ==
    LET av == get_available_cookies(cs)
    IN  IF av = <<>> THEN None
        ELSE LET i == CHOOSE i \in 1..Len(av) :
                          /\ \A j \in 1..Len(av) : cs[av[i]].last_used <= cs[av[j]].last_used
                          /\ \A j \in (i + 1)..Len(av) : cs[av[j]].last_used > cs[av[i]].last_used
             IN  av[i]

get_least_used_cookie(cs) ==
    LET av == get_available_cookies(cs)
    IN  IF av = <<>> THEN None
        ELSE LET i == CHOOSE i \in 1..Len(av) :
                          /\ \A j \in 1..Len(av) : cs[av[i]].last_used <= cs[av[j]].last_used
                          /\ \A j \in 1..(i - 1) : cs[av[j]].last_used > cs[av[i]].last_used
             IN  av[i]

Select_by_prefix(strategy, cs, idx) ==
    IF strategy = "random"
    THEN {[cookie |-> c, current_index |-> idx] : c \in get_random_cookie(cs)}
    ELSE IF strategy \in {"least_used", "least_recently_used"}
    THEN {[cookie |-> get_least_used_cookie(cs), current_index |-> idx]}
    ELSE {get_next_cookie(cs, idx)}

\* lines 209-216: the selections the strategy tag allows
Select(strategy, cs, idx) ==
    IF strategy = "random"
    THEN {[cookie |-> c, current_index |-> idx] : c \in get_random_cookie(cs)}
    ELSE IF strategy = "least_used"
    THEN {[cookie |-> get_least_used_cookie(cs), current_index |-> idx]}
    ELSE {get_next_cookie(cs, idx)}

\* CookieConfig.get_client up to its await: a cached client is returned at once,
\* otherwise the new object is stored in self.client and init is awaited
CookieGetClient_cache_after_init(cs, c) ==
    IF cs[c].client = NoClient
    THEN [cookies |-> cs, res |-> "await"]
    ELSE [cookies |-> cs, res |-> "session"]

CookieGetClient(cs, c) ==
    IF cs[c].client = NoClient
    THEN [cookies |-> [cs EXCEPT ![c].client = "constructed"], res |-> "await"]
    ELSE [cookies |-> cs, res |-> "session"]

InitReturned_drops_failed(cs, c, ok) ==
    [cs EXCEPT ![c].client = IF @ = NoClient THEN @
                             ELSE IF ok THEN "ready" ELSE NoClient]

\* the awaited init has returned (ok) or raised: the state of the GeminiClient
\* object that self.client refers to
InitReturned(cs, c, ok) ==
    [cs EXCEPT ![c].client = IF @ = NoClient THEN @
                             ELSE IF ok THEN "ready" ELSE "failed"]

\* CookieManager.get_client from its entry to the first await, return or raise
GetClientSync(strategy, cs, idx, t) ==
    { IF s.cookie = None
      THEN [cookies |-> cs, current_index |-> s.current_index,
            cookie |-> None, res |-> "raise"]
      ELSE LET g == CookieGetClient(cs, s.cookie)
           IN  [cookies |-> IF g.res = "session"
                            THEN mark_success(g.cookies, s.cookie, t)
                            ELSE g.cookies,
                current_index |-> s.current_index,
                cookie |-> s.cookie,
                res |-> g.res]
      : s \in Select(strategy, cs, idx) }

Failover_needs_all_available(strategy, cs, idx, t) ==
    IF \A i \in 1..Len(cs) : cs[i].is_available
    THEN GetClientSync(strategy, cs, idx, t)
    ELSE {[cookies |-> cs, current_index |-> idx, cookie |-> None, res |-> "raise"]}

\* the except branch (lines 225-232) after mark_error: retry or give up
Failover_none(strategy, cs, idx, t) ==
    {[cookies |-> cs, current_index |-> idx, cookie |-> None, res |-> "raise"]}

Failover(strategy, cs, idx, t) ==
    IF get_available_cookies(cs) # <<>>
    THEN GetClientSync(strategy, cs, idx, t)
    ELSE {[cookies |-> cs, current_index |-> idx, cookie |-> None, res |-> "raise"]}

get_status_counts_all(cs) ==
    [total_cookies |-> Len(cs),
     available_cookies |-> Len(cs),
     cookies |-> [i \in 1..Len(cs) |->
                    [name |-> i,
                     is_available |-> cs[i].is_available,
                     error_count |-> cs[i].error_count,
                     last_used |-> cs[i].last_used]]]

\* CookieManager.get_status: the counts and one entry per cookie, in the order
\* of self.cookies (the entry's name is the cookie's position here)
get_status(cs) ==
    [total_cookies |-> Len(cs),
     available_cookies |-> Len(get_available_cookies(cs)),
     cookies |-> [i \in 1..Len(cs) |->
                    [name |-> i,
                     is_available |-> cs[i].is_available,
                     error_count |-> cs[i].error_count,
                     last_used |-> cs[i].last_used]]]

\* ------------------------------------------------------------------- state
\* A request inside CookieManager.get_client is suspended only at the awaited
\* init; its locals there are the selected cookie and the strategy, and
\* `attempts` counts the CookieConfig.get_client calls (line 222) it has made
\* over its recursive retries.  Requests carry no identity in the code, so the
\* suspended ones form a bag.
Suspended(c, strategy, n) == [cookie |-> c, strategy |-> strategy, attempts |-> n]

\* event: the operation of the last step, the cookie it selected last (or
\* None), the cookie whose init failed in it (or None), its outcome, the
\* attempts of the request that ran, and the error_count that the cookie
\* reported on had before the step
Ev(op, c, failed, res, n, was) ==
    [op |-> op, cookie |-> c, failed |-> failed, res |-> res, attempts |-> n, was |-> was]

\* A chat-completion request in the dispatcher: where its handler (or its
\* stream generator) stands, the model and stream fields of the request, the
\* calls of get_gemini_client and of generate_content it has made, how its
\* generate_content ended ("none" yet, "ok", "raised") and the response.text it
\* returned, the locals words and i of the generator, the frames the generator
\* has yielded, and the outcome: the status of the HTTP response with its
\* detail, or how the stream ended
NoUsage == [prompt_tokens |-> 0, completion_tokens |-> 0, total_tokens |-> 0]

Request(pc, model, stream) ==
    [pc |-> pc, model |-> model, stream |-> stream,
     messages |-> <<>>, prompt |-> <<>>,
     acquisitions |-> 0, generations |-> 0, generated |-> "none", text |-> <<>>,
     words |-> <<>>, i |-> 0, sent |-> <<>>,
     result |-> "none", detail |-> "none", content |-> <<>>, usage |-> NoUsage]

\* load_cookies_from_env is not followed: the pool is taken as loaded
NoBoot == [loaded |-> FALSE, env |-> <<>>, creds |-> <<>>, raised |-> "none"]

\* no chat-completion request has been received
NoRequest == Request("idle", "none", FALSE)

Init ==
    /\ \E n \in 1..MaxCookies : cookies = [i \in 1..n |-> NewCookie(i)]
    /\ current_index = 0
    /\ inflight = EmptyBag
    /\ event = Ev("load", None, None, "none", 0, 0)
    /\ picks = <<>>
    /\ stayed = TRUE
    /\ status = <<>>
    /\ req = NoRequest
    /\ boot = NoBoot

N == Len(cookies)
AllAvailable(cs) == \A i \in 1..Len(cs) : cs[i].is_available
UsesRoundRobin(strategy) == strategy \notin {"random", "least_used"}

\* time.time() as read in this step: not before any earlier reading (the
\* earlier readings are the last_used values), and past 0
Clock ==
    LET m == CHOOSE m \in 1..MaxTime :
                 /\ \A i \in 1..N : cookies[i].last_used <= m
                 /\ m = 1 \/ \E i \in 1..N : cookies[i].last_used = m
    IN  {t \in 1..MaxTime : m <= t /\ t <= m + 1}

\* history update shared by the steps: rr says whether the step made a
\* round-robin selection, which returned c; mid is the pool between the
\* failure report and the retry, cs the pool after the step
Record(mid, cs, rr, c) ==
    /\ stayed' = (stayed /\ AllAvailable(mid) /\ AllAvailable(cs))
    /\ picks' = IF ~stayed' THEN <<>>
                ELSE IF rr /\ c # None /\ Len(picks) <= MaxCookies
                THEN Append(picks, c) ELSE picks

\* the suspended requests after a stretch of a request that ended with
\* outcome o: suspended at the await, or back in the caller (get_gemini_client)
Resume(rest, strategy, o, n) ==
    IF o.res = "await"
    THEN rest (+) SetToBag({Suspended(o.cookie, strategy, n)})
    ELSE rest

\* a request enters CookieManager.get_client(strategy)
Call(strategy) ==
    /\ BagCardinality(inflight) < MaxTasks
    /\ \E now \in Clock : \E o \in GetClientSync(strategy, cookies, current_index, now) :
        LET n == IF o.cookie = None THEN 0 ELSE 1 IN
        /\ cookies' = o.cookies
        /\ current_index' = o.current_index
        /\ inflight' = Resume(inflight, strategy, o, n)
        /\ event' = Ev("get_client", o.cookie, None, o.res, n, 0)
        /\ Record(cookies, o.cookies, UsesRoundRobin(strategy), o.cookie)

\* `await self.client.init(...)` returns: lines 107, 223-224
InitOk(r) ==
    /\ BagIn(r, inflight)
    /\ \E now \in Clock :
       LET c == r.cookie
           cs == mark_success(InitReturned(cookies, c, TRUE), c, now)
       IN  /\ cookies' = cs
           /\ inflight' = inflight (-) SetToBag({r})
           /\ event' = Ev("init_ok", c, None, "session", r.attempts,
                          cookies[c].error_count)
           /\ Record(cookies, cs, FALSE, None)
    /\ UNCHANGED current_index

\* `await self.client.init(...)` raises: lines 225-232, with the recursive
\* call run up to its own await, return or raise
InitFail(r) ==
    /\ BagIn(r, inflight)
    /\ LET c == r.cookie
           cs == mark_error(InitReturned(cookies, c, FALSE), c)
       IN  \E now \in Clock : \E o \in Failover(r.strategy, cs, current_index, now) :
            LET n == IF o.cookie = None THEN r.attempts ELSE r.attempts + 1 IN
            /\ cookies' = o.cookies
            /\ current_index' = o.current_index
            /\ inflight' = Resume(inflight (-) SetToBag({r}), r.strategy, o, n)
            /\ event' = Ev("init_fail", o.cookie, c, o.res, n, cookies[c].error_count)
            /\ Record(cs, o.cookies, UsesRoundRobin(r.strategy), o.cookie)

\* a step of the pool alone: no endpoint of the server is involved
PoolOnly == status' = <<>> /\ UNCHANGED <<req, boot>>

Next ==
    \/ \E s \in Strategies : Call(s) /\ PoolOnly
    \/ \E r \in BagToSet(inflight) : InitOk(r) /\ PoolOnly
    \/ \E r \in BagToSet(inflight) : InitFail(r) /\ PoolOnly

Spec == Init /\ [][Next]_vars

\* the running server under concurrent requests: every caller of get_client
\* goes through get_gemini_client, which passes its default round_robin
NextRoundRobin ==
    \/ Call("round_robin") /\ PoolOnly
    \/ \E r \in BagToSet(inflight) : InitOk(r) /\ PoolOnly
    \/ \E r \in BagToSet(inflight) : InitFail(r) /\ PoolOnly

SpecRoundRobin == Init /\ [][NextRoundRobin]_vars

\* ------------------------------------------------- methods called directly
\* (src/test_multi_cookies.py calls the selection methods, mark_success and
\* mark_error on a loaded manager without going through get_client)
DirectMarkError(c) ==
    /\ c \in 1..N
    /\ cookies[c].error_count < MaxMarks
    /\ cookies' = mark_error(cookies, c)
    /\ event' = Ev("mark_error", c, None, "none", 0, cookies[c].error_count)
    /\ Record(cookies, cookies', FALSE, None)
    /\ UNCHANGED <<current_index, inflight>>

DirectMarkSuccess(c) ==
    /\ c \in 1..N
    /\ \E now \in Clock : cookies' = mark_success(cookies, c, now)
    /\ event' = Ev("mark_success", c, None, "none", 0, cookies[c].error_count)
    /\ Record(cookies, cookies', FALSE, None)
    /\ UNCHANGED <<current_index, inflight>>

DirectSelect(strategy) ==
    /\ \E s \in Select(strategy, cookies, current_index) :
        /\ current_index' = s.current_index
        /\ event' = Ev(strategy, s.cookie, None, "none", 0, 0)
        /\ Record(cookies, cookies, UsesRoundRobin(strategy), s.cookie)
    /\ UNCHANGED <<cookies, inflight>>

\* the unit test of the pool: the methods above in any order, no session made
NextUnit ==
    \/ \E c \in 1..MaxCookies : DirectMarkError(c) /\ PoolOnly
    \/ \E c \in 1..MaxCookies : DirectMarkSuccess(c) /\ PoolOnly
    \/ \E s \in {"round_robin", "random", "least_used"} : DirectSelect(s) /\ PoolOnly

SpecUnit == Init /\ [][NextUnit]_vars

\* a sequential script: one request at a time, and failure reports on any
\* cookie between two requests
NextAPI ==
    \/ \E s \in Strategies : inflight = EmptyBag /\ Call(s) /\ PoolOnly
    \/ \E r \in BagToSet(inflight) : InitOk(r) /\ PoolOnly
    \/ \E r \in BagToSet(inflight) : InitFail(r) /\ PoolOnly
    \/ \E c \in 1..MaxCookies : inflight = EmptyBag /\ DirectMarkError(c) /\ PoolOnly

SpecAPI == Init /\ [][NextAPI]_vars

\* the same script with every request asking for the least recently used
\* cookie, by the tag of the code or by the unrecognised tag
LeastUsedTags == {"least_used", "least_recently_used"}

NextLeastUsed ==
    \/ \E s \in LeastUsedTags : inflight = EmptyBag /\ Call(s) /\ PoolOnly
    \/ \E r \in BagToSet(inflight) : InitOk(r) /\ PoolOnly
    \/ \E r \in BagToSet(inflight) : InitFail(r) /\ PoolOnly
    \/ \E c \in 1..MaxCookies : inflight = EmptyBag /\ DirectMarkError(c) /\ PoolOnly

SpecLeastUsed == Init /\ [][NextLeastUsed]_vars

\* the same script with every request naming round_robin or a tag that the
\* code does not know
FallbackTags == {"round_robin", "least_recently_used"}

NextFallback ==
    \/ \E s \in FallbackTags : inflight = EmptyBag /\ Call(s) /\ PoolOnly
    \/ \E r \in BagToSet(inflight) : InitOk(r) /\ PoolOnly
    \/ \E r \in BagToSet(inflight) : InitFail(r) /\ PoolOnly
    \/ \E c \in 1..MaxCookies : inflight = EmptyBag /\ DirectMarkError(c) /\ PoolOnly

SpecFallback == Init /\ [][NextFallback]_vars

\* the same script under round_robin or least_used, where every awaited init
\* comes back: GeminiClient.init is given timeout=30 (line 107), so the await
\* of line 222 ends, with a client or with an exception
RetryTags == {"round_robin", "least_used"}

InitComesBack ==
    \E r \in BagToSet(inflight) : (InitOk(r) \/ InitFail(r)) /\ PoolOnly

NextRetry ==
    \/ \E s \in RetryTags : inflight = EmptyBag /\ Call(s) /\ PoolOnly
    \/ InitComesBack
    \/ \E c \in 1..MaxCookies : inflight = EmptyBag /\ DirectMarkError(c) /\ PoolOnly

SpecRetry == Init /\ [][NextRetry]_vars /\ WF_vars(InitComesBack)

\* ------------------------------------------- the least-used loop of the test
\* time.time() read after every earlier reading: later than each last_used
LaterClock ==
    LET m == CHOOSE m \in 0..(MaxTime + 2 * MaxCookies) :
                 /\ \A i \in 1..N : cookies[i].last_used <= m
                 /\ m = 0 \/ \E i \in 1..N : cookies[i].last_used = m
    IN  {m + 1, m + 2}

\* one turn of the loop of test_multi_cookies.py, lines 204-209:
\* get_least_used_cookie, then mark_success on the cookie it returned; the
\* loop makes as many turns as there are available cookies
LeastUsedTurn ==
    /\ Len(picks) < Len(get_available_cookies(cookies))
    /\ LET c == get_least_used_cookie(cookies)
       IN  \E now \in LaterClock :
            /\ cookies' = mark_success(cookies, c, now)
            /\ picks' = Append(picks, c)
            /\ event' = Ev("least_used", c, None, "none", 0, cookies[c].error_count)
    /\ UNCHANGED <<current_index, inflight, stayed>>

\* what the script did before the loop: success and failure reports
BeforeLoop(op) ==
    /\ picks = <<>>
    /\ op
    /\ picks' = <<>>

NextRotation ==
    \/ \E c \in 1..MaxCookies : BeforeLoop(DirectMarkError(c)) /\ PoolOnly
    \/ \E c \in 1..MaxCookies : BeforeLoop(DirectMarkSuccess(c)) /\ PoolOnly
    \/ LeastUsedTurn /\ PoolOnly

SpecRotation == Init /\ [][NextRotation]_vars

\* ---------------------------------------------------- load_cookies_from_env
\* os.getenv of a variable: Unset (None), the empty string, or a secret
Unset == "<unset>"
EnvValues == {Unset, "", "A"}

\* the truth value Python gives os.getenv's result (lines 135, 144, 164)
Truthy(v) == v # Unset /\ v # ""

\* COOKIES_JSON: unset, empty, not JSON, JSON that is no array (one object),
\* or an array of objects; an object has its "secure_1psid" key or not (its
\* value may be empty), and a "name" key or not
JsonEntries ==
    {[has_psid |-> TRUE, psid |-> "A", has_name |-> TRUE],
     [has_psid |-> TRUE, psid |-> "A", has_name |-> FALSE],
     [has_psid |-> TRUE, psid |-> "", has_name |-> FALSE],
     [has_psid |-> FALSE, psid |-> "", has_name |-> TRUE]}

JsonValues ==
    {[kind |-> k, entries |-> <<>>] : k \in {"unset", "empty", "invalid", "object"}}
    \cup {[kind |-> "array", entries |-> e] :
              e \in UNION {[1..n -> JsonEntries] : n \in 0..MaxJson}}

\* the environment: SECURE_1PSID, COOKIES_JSON, COOKIE_<i>_PSID for each i
\* (unset past MaxSlots), and whether the COOKIE_<i>_NAME are set
Envs ==
    [legacy : EnvValues, json : JsonValues,
     slots : [1..MaxSlots -> EnvValues], named : BOOLEAN]

\* a CookieConfig as constructed by the load: its secure_1psid and name, and
\* the variable (and position in it) it was read from
Credential(key, psid, name) == [key |-> key, psid |-> psid, name |-> name]

\* lines 132-140
LoadLegacy(env) ==
    IF Truthy(env.legacy)
    THEN <<Credential(<<"SECURE_1PSID", 1>>, env.legacy, <<"Primary Account", 1>>)>>
    ELSE <<>>

\* lines 143-154: the entries appended, and the exception that left the loop
\* (JSONDecodeError is caught at line 153; iterating a non-array raises
\* TypeError, cookie_data["secure_1psid"] on an object without it KeyError)
LoadJson(env) ==
    LET j == env.json
        F[k \in 0..Len(j.entries)] ==
            IF k = 0 THEN [creds |-> <<>>, raised |-> "none"]
            ELSE IF F[k - 1].raised # "none" THEN F[k - 1]
            ELSE IF ~j.entries[k].has_psid
            THEN [creds |-> F[k - 1].creds, raised |-> "KeyError"]
            ELSE [creds |-> Append(F[k - 1].creds,
                                   Credential(<<"COOKIES_JSON", k>>, j.entries[k].psid,
                                              IF j.entries[k].has_name
                                              THEN <<"name", k>> ELSE <<"Account", k>>)),
                  raised |-> "none"]
    IN  IF j.kind = "array" THEN F[Len(j.entries)]
        ELSE IF j.kind = "object" THEN [creds |-> <<>>, raised |-> "TypeError"]
        ELSE [creds |-> <<>>, raised |-> "none"]

LoadSlots_past_gaps(env) ==
    LET G[i \in 1..(MaxSlots + 1)] ==
            IF i > MaxSlots THEN <<>>
            ELSE IF ~Truthy(env.slots[i]) THEN G[i + 1]
            ELSE <<Credential(<<"COOKIE_PSID", i>>, env.slots[i],
                              IF env.named THEN <<"name", i>> ELSE <<"Account", i>>)>>
                 \o G[i + 1]
    IN  G[1]

\* lines 157-173: the loop from i = 1 to the first COOKIE_<i>_PSID not set
LoadSlots(env) ==
    LET G[i \in 1..(MaxSlots + 1)] ==
            IF i > MaxSlots THEN <<>>
            ELSE IF ~Truthy(env.slots[i]) THEN <<>>
            ELSE <<Credential(<<"COOKIE_PSID", i>>, env.slots[i],
                              IF env.named THEN <<"name", i>> ELSE <<"Account", i>>)>>
                 \o G[i + 1]
    IN  G[1]

Merge_slots_first(legacy, json, slots) == legacy \o slots \o json

\* the order of the three appends into self.cookies
Merge(legacy, json, slots) == legacy \o json \o slots

\* load_cookies_from_env from the clear of line 130: the CookieConfigs left in
\* self.cookies and the exception raised, "none" if it returned
load_cookies_from_env(env) ==
    LET j == LoadJson(env)
    IN  IF j.raised # "none"
        THEN [creds |-> Merge(LoadLegacy(env), j.creds, <<>>), raised |-> j.raised]
        ELSE LET all == Merge(LoadLegacy(env), j.creds, LoadSlots(env))
             IN  [creds |-> all,
                  raised |-> IF all = <<>> THEN "ValueError" ELSE "none"]

\* CookieManager() (lines 124-126), or a manager left by an earlier load with
\* a cookie that has been used
InitLoad ==
    /\ cookies \in {<<>>, <<[NewCookie(1) EXCEPT !.client = "ready", !.last_used = 1]>>}
    /\ current_index = 0
    /\ inflight = EmptyBag
    /\ event = Ev("construct", None, None, "none", 0, 0)
    /\ picks = <<>>
    /\ stayed = TRUE
    /\ status = <<>>
    /\ req = NoRequest
    /\ boot = NoBoot

\* lifespan (lines 266-277) calls load_cookies_from_env once, at startup
Load(env) ==
    /\ ~boot.loaded
    /\ LET r == load_cookies_from_env(env)
       IN  /\ cookies' = [i \in 1..Len(r.creds) |-> NewCookie(i)]
           /\ boot' = [loaded |-> TRUE, env |-> env, creds |-> r.creds, raised |-> r.raised]
    /\ event' = Ev("load", None, None, "none", 0, 0)
    /\ UNCHANGED <<current_index, inflight, picks, stayed, status, req>>

NextLoad == ~boot.loaded /\ \E env \in Envs : Load(env)

SpecLoad == InitLoad /\ [][NextLoad]_vars

\* ------------------------------------------------------- GET /cookies/status
\* cookies_status (lines 497-504): get_status has no await, so the handler is
\* one step between the steps of the requests in flight
GetStatus ==
    /\ status' = <<get_status(cookies)>>
    /\ event' = Ev("get_status", None, None, "none", 0, 0)
    /\ UNCHANGED <<cookies, current_index, inflight, picks, stayed, req, boot>>

\* the server under concurrent requests (get_gemini_client passes its default
\* strategy, round_robin), failure reports on any cookie while no request is
\* in flight, and status queries at any point
NextStatus ==
    \/ Call("round_robin") /\ PoolOnly
    \/ \E r \in BagToSet(inflight) : InitOk(r) /\ PoolOnly
    \/ \E r \in BagToSet(inflight) : InitFail(r) /\ PoolOnly
    \/ \E c \in 1..MaxCookies : inflight = EmptyBag /\ DirectMarkError(c) /\ PoolOnly
    \/ GetStatus

SpecStatus == Init /\ [][NextStatus]_vars

\* ------------------------------------------------ POST /v1/chat/completions
AVAILABLE_MODELS ==
    {"gemini-2.5-pro", "gemini-2.5-flash", "gemini-2.0-flash",
     "gemini-2.0-flash-thinking", "gemini-2.5-exp-advanced", "gemini-2.0-exp-advanced"}

\* the model names the requests carry: one of the table, one outside it
RequestModels == {"gemini-2.5-flash", "gpt-4"}

KnownModel_any(model) == TRUE

\* line 440
KnownModel(model) == model \in AVAILABLE_MODELS

\* the exceptions generate_content raises: one of the library's (line 481),
\* one that is not (line 483)
LibraryErrors == {"APIError", "AuthError", "GeminiError"}
BackendErrors == {"APIError", "TimeoutError"}

\* response.text: a string over a letter and the blank (its words differ in
\* length)
Alphabet == {"a", " "}
Texts == UNION {[1..n -> Alphabet] : n \in 0..MaxText}
ShortTexts == {<<>>, <<"a">>}

\* the white space of str.split() that the strings here contain
Whitespace == {" ", "\n"}

\* str.split() with no argument: the maximal runs of non-blank characters
split(text) ==
    LET F[k \in 0..Len(text)] ==
            IF k = 0 THEN [words |-> <<>>, word |-> <<>>]
            ELSE LET p == F[k - 1]
                 IN  IF text[k] \in Whitespace
                     THEN IF p.word = <<>> THEN p
                          ELSE [words |-> Append(p.words, p.word), word |-> <<>>]
                     ELSE [p EXCEPT !.word = Append(@, text[k])]
        f == F[Len(text)]
    IN  IF f.word = <<>> THEN f.words ELSE Append(f.words, f.word)

\* request.messages: ChatMessage objects with a role and a content; "tool" is
\* a role that messages_to_prompt does not name
Roles == {"system", "user", "assistant", "tool"}
Contents == {<<>>, <<"H", "i">>, <<"a", " ", "b">>}
Messages == [role : Roles, content : Contents]
MessageLists == UNION {[1..n -> Messages] : n \in 0..MaxMessages}

\* one user message "Hi"
Hi == <<[role |-> "user", content |-> <<"H", "i">>]>>

RoleLabel_none(role) == <<>>

\* the text before {content} in the f-strings of lines 341, 343, 345
RoleLabel(role) ==
    IF role = "system" THEN <<"S", "y", "s", "t", "e", "m", ":", " ">>
    ELSE IF role = "user" THEN <<"U", "s", "e", "r", ":", " ">>
    ELSE <<"A", "s", "s", "i", "s", "t", "a", "n", "t", ":", " ">>

\* "\n\n".join(parts)
RECURSIVE join(_)
join(parts) ==
    IF parts = <<>> THEN <<>>
    ELSE IF Len(parts) = 1 THEN parts[1]
    ELSE parts[1] \o <<"\n", "\n">> \o join(Tail(parts))

messages_to_prompt_keeps_all(messages) ==
    LET prompt_parts[k \in 0..Len(messages)] ==
            IF k = 0 THEN <<>>
            ELSE Append(prompt_parts[k - 1],
                        RoleLabel(messages[k].role) \o messages[k].content)
    IN  join(prompt_parts[Len(messages)])

\* lines 332-347: the loop appends one part for each message of a named role
messages_to_prompt(messages) ==
    LET prompt_parts[k \in 0..Len(messages)] ==
            IF k = 0 THEN <<>>
            ELSE IF messages[k].role \in {"system", "user", "assistant"}
                 THEN Append(prompt_parts[k - 1],
                             RoleLabel(messages[k].role) \o messages[k].content)
                 ELSE prompt_parts[k - 1]
    IN  join(prompt_parts[Len(messages)])

\* the usage dictionary of lines 475-479
Usage(prompt, text) ==
    [prompt_tokens |-> Len(split(prompt)),
     completion_tokens |-> Len(split(text)),
     total_tokens |-> Len(split(prompt)) + Len(split(text))]

\* the frames of the stream: a chunk with its delta (content present or not)
\* and finish_reason, or the sentinel line `data: [DONE]`
Chunk(has_content, content, finish_reason) ==
    [kind |-> "chunk", has_content |-> has_content, content |-> content,
     finish_reason |-> finish_reason]

DONE == [kind |-> "[DONE]", has_content |-> FALSE, content |-> <<>>, finish_reason |-> "None"]

WordChunk_always_space(words, i) ==
    Chunk(TRUE, words[i + 1] \o <<" ">>, "None")

\* lines 369-380, for the loop index i (from 0)
WordChunk(words, i) ==
    Chunk(TRUE, IF i < Len(words) - 1 THEN words[i + 1] \o <<" ">> ELSE words[i + 1], "None")

\* lines 385-396
FinalChunk == Chunk(FALSE, <<>>, "stop")

ErrorChunk_stop == Chunk(TRUE, <<"Error: ">>, "stop")

\* lines 401-412: the content is "Error: " followed by the exception's text
ErrorChunk == Chunk(TRUE, <<"Error: ">>, "error")

\* the handler or the generator ends
Finish(q, result, detail) ==
    [q EXCEPT !.pc = "done", !.result = result, !.detail = detail]

\* generate_stream_response resumed at its position, up to its next yield or
\* its end: "words" is the loop of lines 368-382 and the final chunk after
\* it, "error" the except branch, "sentinel" the yield of `data: [DONE]`
\* (line 398 or 414), "end" the return after it
Yield(q) ==
    IF q.pc = "words"
    THEN IF q.i < Len(q.words)
         THEN [q EXCEPT !.sent = Append(@, WordChunk(q.words, q.i)), !.i = @ + 1]
         ELSE [q EXCEPT !.sent = Append(@, FinalChunk), !.pc = "sentinel"]
    ELSE IF q.pc = "error"
    THEN [q EXCEPT !.sent = Append(@, ErrorChunk), !.pc = "sentinel"]
    ELSE IF q.pc = "sentinel"
    THEN [q EXCEPT !.sent = Append(@, DONE), !.pc = "end"]
    ELSE Finish(q, "stream closed", "none")

AfterAcquire_503(q, res) ==
    IF res = "await" THEN [q EXCEPT !.pc = "acquire"]
    ELSE IF res = "session" THEN [q EXCEPT !.pc = "generate", !.generations = @ + 1]
    ELSE Finish(q, "503", "Failed to get Gemini client")

\* the request after a stretch of get_gemini_client (lines 321-329) that ended
\* with outcome res: still inside it, or given a client and calling
\* generate_content (line 361 or 462), or its HTTPException 500 raised: out of
\* the generator at line 357, or into `except Exception` at line 483
AfterAcquire(q, res) ==
    IF res = "await" THEN [q EXCEPT !.pc = "acquire"]
    ELSE IF res = "session" THEN [q EXCEPT !.pc = "generate", !.generations = @ + 1]
    ELSE IF q.stream THEN Finish(q, "stream raised", "Failed to get Gemini client")
    ELSE Finish(q, "500", "Internal server error: Failed to get Gemini client")

GenerationFailed_retry(q, e) ==
    IF q.generations < 2
    THEN [q EXCEPT !.generated = "raised", !.generations = @ + 1]
    ELSE IF q.stream THEN Yield([q EXCEPT !.generated = "raised", !.pc = "error"])
    ELSE Finish([q EXCEPT !.generated = "raised"], "500", "Internal server error")

\* generate_content raised e: the except branch of the generator up to its
\* first yield (lines 400-413), or the HTTPException of lines 481-484
GenerationFailed(q, e) ==
    IF q.stream THEN Yield([q EXCEPT !.generated = "raised", !.pc = "error"])
    ELSE IF e \in LibraryErrors
    THEN Finish([q EXCEPT !.generated = "raised"], "500", "str(e)")
    ELSE Finish([q EXCEPT !.generated = "raised"], "500", "Internal server error")

\* generate_content returned a response with this text: the generator up to
\* its first yield (lines 364-381), or the response of lines 464-480
Generated(q, text) ==
    LET g == [q EXCEPT !.generated = "ok", !.text = text]
    IN  IF q.stream THEN Yield([g EXCEPT !.pc = "words", !.words = split(text), !.i = 0])
        ELSE Finish([g EXCEPT !.content = text, !.usage = Usage(q.prompt, text)],
                    "200", "none")

PoolUntouched_reports_generation(op) ==
    /\ event' = Ev(op, None, None, "none", 0, 0)
    /\ status' = <<>>
    /\ UNCHANGED boot
    /\ cookies' = IF op = "generate_fail" /\ event.cookie # None
                  THEN mark_error(cookies, event.cookie) ELSE cookies
    /\ UNCHANGED <<current_index, inflight, picks, stayed>>

\* a step of the dispatcher that does not enter the pool
PoolUntouched(op) ==
    /\ event' = Ev(op, None, None, "none", 0, 0)
    /\ status' = <<>>
    /\ UNCHANGED boot
    /\ UNCHANGED <<cookies, current_index, inflight, picks, stayed>>

\* create_chat_completion is called (the previous request is over): either the
\* model is refused, or the prompt is built and the handler, or the generator
\* it returns in a StreamingResponse, runs up to the end of its first stretch
\* inside get_gemini_client()
Receive(model, stream, messages) ==
    /\ req.pc \in {"idle", "done"}
    /\ inflight = EmptyBag
    /\ IF ~KnownModel(model)
       THEN /\ req' = Finish([Request("start", model, stream) EXCEPT !.messages = messages],
                             "400", "Model not found")
            /\ PoolUntouched("chat")
       ELSE /\ Call("round_robin")
            /\ status' = <<>>
            /\ UNCHANGED boot
            /\ req' = AfterAcquire([Request("start", model, stream) EXCEPT
                                        !.messages = messages,
                                        !.prompt = messages_to_prompt(messages),
                                        !.acquisitions = 1],
                                    event'.res)

\* the init awaited inside get_gemini_client returns, or raises
Acquired(r) ==
    /\ req.pc = "acquire"
    /\ \/ InitOk(r)
       \/ InitFail(r)
    /\ status' = <<>>
    /\ UNCHANGED boot
    /\ req' = AfterAcquire(req, event'.res)

GenerateOk(text) ==
    /\ req.pc = "generate"
    /\ req' = Generated(req, text)
    /\ PoolUntouched("generate_ok")

GenerateFail(e) ==
    /\ req.pc = "generate"
    /\ req' = GenerationFailed(req, e)
    /\ PoolUntouched("generate_fail")

\* the response iterates the generator once more
Pull ==
    /\ req.pc \in {"words", "sentinel", "end"}
    /\ req' = Yield(req)
    /\ PoolUntouched("yield")

\* a failure report on a cookie while no request is being served; the record
\* of the request served before it is dropped
ReportBetweenRequests(c) ==
    /\ req.pc \in {"idle", "done"}
    /\ DirectMarkError(c)
    /\ status' = <<>>
    /\ UNCHANGED boot
    /\ req' = NoRequest

\* streaming requests served one after the other
NextStream ==
    \/ Receive("gemini-2.5-flash", TRUE, Hi)
    \/ \E r \in BagToSet(inflight) : Acquired(r)
    \/ \E text \in Texts : GenerateOk(text)
    \/ \E e \in BackendErrors : GenerateFail(e)
    \/ Pull

SpecStream == Init /\ [][NextStream]_vars

\* requests of both kinds served one after the other, with failure reports on
\* any cookie between two requests
NextDispatch ==
    \/ \E model \in RequestModels, stream \in BOOLEAN : Receive(model, stream, Hi)
    \/ \E r \in BagToSet(inflight) : Acquired(r)
    \/ \E text \in ShortTexts : GenerateOk(text)
    \/ \E e \in BackendErrors : GenerateFail(e)
    \/ Pull
    \/ \E c \in 1..MaxCookies : ReportBetweenRequests(c)

SpecDispatch == Init /\ [][NextDispatch]_vars

\* get_client(strategy) called while no chat completion is being served: by
\* health_check (lines 487-494) through get_gemini_client, which passes
\* round_robin, or by a caller that names its policy; health_check answers
\* with a dict built from the outcome and writes nothing
PoolCall(strategy) ==
    /\ req.pc \in {"idle", "done"}
    /\ inflight = EmptyBag
    /\ Call(strategy)
    /\ status' = <<>>
    /\ UNCHANGED boot
    /\ req' = NoRequest

\* the init awaited by that call returns, or raises
PoolCallResumed(r) ==
    /\ req.pc # "acquire"
    /\ \/ InitOk(r)
       \/ InitFail(r)
    /\ PoolOnly

\* GET /cookies/status between two requests
StatusBetweenRequests ==
    /\ req.pc \in {"idle", "done"}
    /\ GetStatus

\* every endpoint of the running server, one request at a time; the failure
\* reports are those of get_client, the only caller of mark_error
NextServer ==
    \/ \E model \in RequestModels, stream \in BOOLEAN : Receive(model, stream, Hi)
    \/ \E r \in BagToSet(inflight) : Acquired(r)
    \/ \E text \in ShortTexts : GenerateOk(text)
    \/ \E e \in BackendErrors : GenerateFail(e)
    \/ Pull
    \/ \E s \in Strategies : PoolCall(s)
    \/ \E r \in BagToSet(inflight) : PoolCallResumed(r)
    \/ StatusBetweenRequests

SpecServer == Init /\ [][NextServer]_vars

\* the backend's answers to a chat: with blanks at both ends and a double blank
ReplyTexts == {<<"a">>, <<" ", "a", " ", " ", "a", " ">>}

\* the first chat completion after startup, non-streaming, of any message list
NextChat ==
    \/ /\ req.pc = "idle"
       /\ \E model \in RequestModels, messages \in MessageLists :
             Receive(model, FALSE, messages)
    \/ \E r \in BagToSet(inflight) : Acquired(r)
    \/ \E text \in ReplyTexts : GenerateOk(text)
    \/ \E e \in BackendErrors : GenerateFail(e)

SpecChat == Init /\ [][NextChat]_vars

\* ------------------------------------------------------------------ claims
Available == get_available_cookies(cookies)
Suspensions == BagToSet(inflight)

C2_FailedInitNotCached ==
    \A c \in 1..N : cookies[c].client # "failed"

\* C3: a session returned by CookieManager.get_client (and the success report
\* made on return) is for a cookie whose init has completed successfully.
C3_ReturnedSessionInitialized ==
    event.res = "session" => cookies[event.cookie].client = "ready"

\* C4: CookieManager.get_client raises only when no cookie is available.
C4_RaiseOnlyWhenNoneAvailable ==
    event.res = "raise" => Available = <<>>

\* an init failure was surfaced as the error, from a pool of more than one cookie
C4_Witness ==
    /\ N > 1
    /\ event.op = "init_fail"
    /\ event.res = "raise"
    /\ Available = <<>>

\* C5: after an init failure, with another cookie available, the retry selects
\* a cookie other than the one that failed.
C5_RetrySelectsAnotherCookie ==
    (/\ event.op = "init_fail"
     /\ event.cookie # None
     /\ \E c \in 1..N : c # event.failed /\ cookies[c].is_available)
    => event.cookie # event.failed

\* the step just taken reported a failure / a success on cookie c
FailureReported(c) ==
    \/ event'.op = "mark_error" /\ event'.cookie = c
    \/ event'.op = "init_fail" /\ event'.failed = c
SuccessReported(c) ==
    \/ event'.op = "mark_success" /\ event'.cookie = c
    \/ event'.res = "session" /\ event'.cookie = c

\* C6: a failure report adds exactly 1 to that cookie's error_count, changes
\* nothing else, and turns is_available to false exactly when the count
\* reaches max_errors.
C6_MarkErrorCountsAndDemotes ==
    [][event'.op = "mark_error" =>
        LET c == event'.cookie
        IN  /\ cookies'[c].error_count = cookies[c].error_count + 1
            /\ cookies'[c].last_used = cookies[c].last_used
            /\ cookies'[c].client = cookies[c].client
            /\ \A d \in 1..N : d # c => cookies'[d] = cookies[d]
            /\ Len(cookies') = N /\ current_index' = current_index
            /\ (cookies[c].is_available /\ ~cookies'[c].is_available)
                   <=> cookies'[c].error_count = max_errors
            /\ cookies'[c].error_count < max_errors
                   => cookies'[c].is_available = cookies[c].is_available
    ]_vars

\* the third consecutive failure report took the cookie out of the pool
C6_Witness ==
    /\ event.op = "mark_error"
    /\ event.was = max_errors - 1
    /\ cookies[event.cookie].error_count = max_errors
    /\ ~cookies[event.cookie].is_available

\* a cookie is unavailable iff its error_count is at least max_errors
C7_Threshold ==
    \A c \in 1..N : ~cookies[c].is_available <=> cookies[c].error_count >= max_errors

\* C7: in every reachable state a cookie is unavailable iff its error_count is
\* at least max_errors; it becomes unavailable only in a failure report that
\* reaches the threshold and available again only in a success report, which
\* leaves error_count at 0.
C7_UnavailableIffThreshold ==
    /\ []C7_Threshold
    /\ [][\A c \in 1..N :
            /\ (cookies[c].is_available /\ ~cookies'[c].is_available)
                 => FailureReported(c) /\ cookies'[c].error_count >= max_errors
            /\ (~cookies[c].is_available /\ cookies'[c].is_available)
                 => SuccessReported(c) /\ cookies'[c].error_count = 0
       ]_vars

\* a demoted cookie was restored by a success report while another is demoted
C7_Witness ==
    /\ event.op = "mark_success"
    /\ event.was >= max_errors
    /\ cookies[event.cookie].is_available
    /\ \E d \in 1..N : ~cookies[d].is_available

\* C8: a success report leaves the cookie with error_count 0 and available,
\* whatever it was before, and changes no other cookie.
C8_MarkSuccessResets ==
    [][event'.op = "mark_success" =>
        LET c == event'.cookie
        IN  /\ cookies'[c].error_count = 0
            /\ cookies'[c].is_available
            /\ cookies'[c].client = cookies[c].client
            /\ \A d \in 1..N : d # c => cookies'[d] = cookies[d]
            /\ Len(cookies') = N /\ current_index' = current_index
    ]_vars

\* a success report on a cookie that had reached the threshold
C8_Witness ==
    /\ event.op = "mark_success"
    /\ event.was = max_errors
    /\ cookies[event.cookie].error_count = 0
    /\ cookies[event.cookie].last_used > 0

\* C9: while every cookie stays available, the i-th round-robin selection
\* since load returns cookie ((i - 1) mod N) + 1: the first N selections are
\* the cookies in load order, the (N + 1)-th is the first cookie again.
C9_RoundRobinVisitsInLoadOrder ==
    stayed => \A i \in 1..Len(picks) : picks[i] = ((i - 1) % N) + 1

\* N + 1 round-robin selections were made on the largest pool
C9_Witness ==
    /\ stayed
    /\ N = MaxCookies
    /\ Len(picks) = N + 1
    /\ picks[N + 1] = 1
    /\ event.op = "round_robin"

\* C10: a selection method returns None or a cookie that is available.
SelectionOps == {"round_robin", "random", "least_used"}

C10_SelectedIsAvailable ==
    (event.op \in SelectionOps /\ event.cookie # None)
        => cookies[event.cookie].is_available

\* least-used selection passed over an unavailable cookie with a smaller last_used
C10_Witness ==
    /\ event.op = "least_used"
    /\ event.cookie # None
    /\ \E d \in 1..N : /\ ~cookies[d].is_available
                       /\ cookies[d].last_used < cookies[event.cookie].last_used

\* C11: when no cookie is available, CookieManager.get_client under any
\* strategy raises without calling CookieConfig.get_client (no session is made,
\* no init awaited), leaves every cookie and the cursor as they were, and
\* get_status reports available_cookies = 0.
C11_ExhaustedPoolRaisesUntouched ==
    [][(event'.op = "get_client" /\ \A c \in 1..N : ~cookies[c].is_available)
        => /\ event'.res = "raise"
           /\ event'.cookie = None
           /\ event'.attempts = 0
           /\ UNCHANGED <<cookies, current_index, inflight>>
           /\ get_status(cookies').available_cookies = 0
           /\ get_status(cookies').total_cookies = N]_vars

\* a request found every cookie of the largest pool unavailable and raised
C11_Witness ==
    /\ N = MaxCookies
    /\ event.op = "get_client"
    /\ event.res = "raise"
    /\ \A c \in 1..N : ~cookies[c].is_available /\ cookies[c].client = NoClient

\* the number of requests suspended at the awaited init of cookie c
InitsInFlight(c, b) ==
    LET on == {r \in BagToSet(b) : r.cookie = c}
        Sum[S \in SUBSET on] ==
            IF S = {} THEN 0
            ELSE LET r == CHOOSE r \in S : TRUE
                 IN  CopiesIn(r, b) + Sum[S \ {r}]
    IN  Sum[on]

\* C18: each cookie's GeminiClient is constructed and its init invoked at most
\* once in a run: an init is started only on a cookie with no cached client,
\* a cached client is never dropped or replaced (so every later
\* CookieConfig.get_client returns it without calling init), and two inits of
\* the same cookie are never in flight together.
C18_OneInitPerCookie ==
    /\ [](\A c \in 1..N :
            /\ InitsInFlight(c, inflight) <= 1
            /\ InitsInFlight(c, inflight) = 1 <=> cookies[c].client = "constructed")
    /\ [][\A c \in 1..N :
            /\ InitsInFlight(c, inflight') > InitsInFlight(c, inflight)
                   => cookies[c].client = NoClient
            /\ cookies[c].client # NoClient => cookies'[c].client # NoClient
            /\ cookies[c].client = "ready" => cookies'[c].client = "ready"
            /\ cookies'[c].client = "ready" /\ cookies[c].client # "ready"
                   => event'.op = "init_ok" /\ event'.cookie = c]_vars

\* while one cookie's init is in flight, a request for a cookie whose session
\* is cached got that session back at once
C18_Witness ==
    /\ event.op = "get_client"
    /\ event.res = "session"
    /\ cookies[event.cookie].client = "ready"
    /\ \E c \in 1..N : InitsInFlight(c, inflight) = 1

\* the pool between the failure report of cookie c (lines 225-227) and the retry
AfterFailure(cs, c) == mark_error(InitReturned(cs, c, FALSE), c)

\* c is available in cs, no available cookie was used less recently, and every
\* available cookie loaded before c was used more recently
IsLeastRecentlyUsed(cs, c) ==
    /\ c \in 1..Len(cs)
    /\ cs[c].is_available
    /\ \A d \in 1..Len(cs) : cs[d].is_available => cs[c].last_used <= cs[d].last_used
    /\ \A d \in 1..(c - 1) : cs[d].is_available => cs[d].last_used > cs[c].last_used

\* the selections of CookieManager.get_client called with the given tag, on
\* entry and on the retry after a failed init, pick the least recently used
\* available cookie
PicksLeastRecentlyUsed(tag) ==
    /\ (event'.op = "get_client" /\ Available # <<>>
           /\ ~IsLeastRecentlyUsed(cookies, event'.cookie))
          => ~Call(tag)
    /\ event'.op = "init_fail" =>
          \A r \in Suspensions :
             (r.strategy = tag /\ r.cookie = event'.failed
                /\ get_available_cookies(AfterFailure(cookies, r.cookie)) # <<>>
                /\ ~IsLeastRecentlyUsed(AfterFailure(cookies, r.cookie), event'.cookie))
             => ~InitFail(r)

\* C19 as stated: CookieManager.get_client called with the tag
\* "least_recently_used" picks, among the available cookies, the one with the
\* least last_used, the first in load order on a tie.
C19_LeastRecentlyUsedTag ==
    [][PicksLeastRecentlyUsed("least_recently_used")]_vars

\* C19 amended: the tag that selects this way is "least_used"; called with it,
\* CookieManager.get_client picks, among the available cookies, the one with
\* the least last_used, the first in load order on a tie.
C19_LeastUsedTag ==
    [][PicksLeastRecentlyUsed("least_used")]_vars

\* a "least_used" request passed over the first cookie, available but used
\* more recently, and is initializing the second
C19_Witness ==
    /\ event.op = "get_client"
    /\ event.res = "await"
    /\ event.cookie = 2
    /\ Suspended(2, "least_used", 1) \in Suspensions
    /\ cookies[1].is_available
    /\ cookies[1].last_used > cookies[2].last_used

\* C17: get_status leaves the cursor, the cookies (order, health fields, cached
\* clients) and the suspended requests as they are, and, called between the
\* steps of concurrent requests, returns total_cookies = number of cookies,
\* available_cookies = number of cookies with is_available in that state, and
\* one entry per cookie in load order carrying that cookie's fields.
C17_StatusIsPureSnapshot ==
    [][event'.op = "get_status"
        => /\ UNCHANGED <<cookies, current_index, inflight>>
           /\ Len(status') = 1
           /\ status'[1].total_cookies = N
           /\ status'[1].available_cookies
                 = Cardinality({c \in 1..N : cookies[c].is_available})
           /\ DOMAIN status'[1].cookies = 1..N
           /\ \A i \in 1..N :
                 /\ status'[1].cookies[i].name = i
                 /\ status'[1].cookies[i].is_available = cookies[i].is_available
                 /\ status'[1].cookies[i].error_count = cookies[i].error_count
                 /\ status'[1].cookies[i].last_used = cookies[i].last_used]_vars

\* a status query answered while a request is suspended at an init, with one
\* cookie of two unavailable
C17_Witness ==
    /\ event.op = "get_status"
    /\ BagCardinality(inflight) >= 1
    /\ Len(status) = 1
    /\ status[1].total_cookies = 2
    /\ status[1].available_cookies = 1

\* C12: a streaming request that is over, whichever of its steps failed
\* (get_gemini_client or generate_content), ended with the generator closing
\* after `data: [DONE]` as its last frame, the failure reported in a frame; no
\* exception left generate_stream_response.
C12_StreamAlwaysTerminated ==
    (req.pc = "done" /\ req.stream /\ KnownModel(req.model))
    => /\ req.result = "stream closed"
       /\ req.sent # <<>>
       /\ req.sent[Len(req.sent)] = DONE
       /\ req.generated # "ok" => \E j \in 1..Len(req.sent) : req.sent[j].finish_reason = "error"

\* C13: in a streaming request whose generate_content raised, the frames are
\* one chunk with content and finish_reason "error", then `data: [DONE]`, and
\* nothing else: no word chunk, no "stop" chunk, nothing after the sentinel.
C13_ErrorStreamIsErrorThenDone ==
    (req.stream /\ req.generated = "raised")
    => /\ Len(req.sent) \in {1, 2}
       /\ req.sent[1].kind = "chunk"
       /\ req.sent[1].has_content
       /\ req.sent[1].finish_reason = "error"
       /\ Len(req.sent) = 2 => req.sent[2].kind = "[DONE]"
       /\ req.pc \in {"sentinel", "end", "done"}
       /\ req.pc = "sentinel" <=> Len(req.sent) = 1
       /\ req.pc = "done" => req.result = "stream closed"

\* the stream of a failed generation has been closed
C13_Witness ==
    /\ req.stream
    /\ req.generated = "raised"
    /\ req.pc = "done"
    /\ Len(req.sent) = 2

\* the positions of text where a word starts, and the word starting at p
WordStarts(text) ==
    {p \in 1..Len(text) : text[p] # " " /\ (p = 1 \/ text[p - 1] = " ")}

WordFrom(text, p) ==
    LET e == CHOOSE e \in p..Len(text) :
                 /\ \A x \in p..e : text[x] # " "
                 /\ e = Len(text) \/ text[e + 1] = " "
    IN  SubSeq(text, p, e)

\* the j-th word of text (j from 1)
NthWord(text, j) ==
    LET p == CHOOSE p \in WordStarts(text) :
                 Cardinality({x \in WordStarts(text) : x < p}) = j - 1
    IN  WordFrom(text, p)

\* C14: in a streaming request whose generate_content returned a text of k
\* whitespace-delimited words, the frames yielded are a prefix of: the k words
\* in order, each followed by one blank except the last, then one chunk
\* without content and finish_reason "stop", then `data: [DONE]`; the closed
\* stream has all k + 2 of them, so the sentinel is there once and last.
C14_WordStreamShape ==
    (req.stream /\ req.generated = "ok")
    => LET k == Cardinality(WordStarts(req.text))
           n == Len(req.sent)
       IN  /\ n <= k + 2
           /\ n >= 1
           /\ \A j \in 1..n :
                 IF j <= k
                 THEN /\ req.sent[j].kind = "chunk"
                      /\ req.sent[j].has_content
                      /\ req.sent[j].finish_reason = "None"
                      /\ req.sent[j].content
                            = IF j < k THEN NthWord(req.text, j) \o <<" ">>
                              ELSE NthWord(req.text, j)
                 ELSE IF j = k + 1
                 THEN /\ req.sent[j].kind = "chunk"
                      /\ ~req.sent[j].has_content
                      /\ req.sent[j].finish_reason = "stop"
                 ELSE req.sent[j].kind = "[DONE]"
           /\ req.pc \in {"end", "done"} <=> n = k + 2
           /\ req.pc = "done" => req.result = "stream closed"

\* the stream of a three-word response has been closed after its five frames
C14_Witness ==
    /\ req.stream
    /\ req.generated = "ok"
    /\ req.pc = "done"
    /\ Cardinality(WordStarts(req.text)) = 3
    /\ Len(req.sent) = 5
    /\ req.sent[5] = DONE

\* C15: once generate_content has raised for a request, the dispatcher has
\* made exactly one get_gemini_client call and exactly one generate_content
\* call for it and makes no other: the non-streaming request is over with the
\* failure as its response (500), the streaming one is past its error chunk.
C15_NoRetryAfterGenerationFailure ==
    req.generated = "raised"
    => /\ req.generations = 1
       /\ req.acquisitions = 1
       /\ req.pc \notin {"acquire", "generate"}
       /\ inflight = EmptyBag
       /\ ~req.stream => req.pc = "done" /\ req.result = "500" /\ req.detail # "none"
       /\ req.stream => req.sent # <<>> /\ req.sent[1].finish_reason = "error"

\* a non-streaming request failed in generate_content while another cookie,
\* available and never tried, was there to retry with
C15_Witness ==
    /\ ~req.stream
    /\ req.generated = "raised"
    /\ req.pc = "done"
    /\ \E c \in 1..N : cookies[c].is_available /\ cookies[c].client = NoClient

\* C16: a chat-completion request, streaming or not, whose model is not in
\* AVAILABLE_MODELS is answered 400 before the pool is entered: no
\* get_gemini_client call, no generation, no frame, and the cursor, the
\* cookies (error_count, is_available, last_used, cached client) and the
\* suspended requests are unchanged.
C16_UnknownModelRejectedFirst ==
    [][(req.pc \in {"idle", "done"} /\ event'.op \in {"chat", "get_client"}
          /\ req'.model \notin AVAILABLE_MODELS)
        => /\ req'.pc = "done"
           /\ req'.result = "400"
           /\ req'.acquisitions = 0
           /\ req'.generations = 0
           /\ req'.sent = <<>>
           /\ event'.op = "chat"
           /\ UNCHANGED <<cookies, current_index, inflight>>]_vars

\* a streaming request for an unknown model was refused by a pool that holds
\* a cached client and an unavailable cookie
C16_Witness ==
    /\ req.pc = "done"
    /\ req.stream
    /\ req.model \notin AVAILABLE_MODELS
    /\ req.result = "400"
    /\ \E c \in 1..N : cookies[c].client # NoClient
    /\ \E c \in 1..N : ~cookies[c].is_available

\* C20: a non-streaming request ends in exactly one of: 200 (generate_content
\* returned), 400 (model not in AVAILABLE_MODELS), 500 with a detail
\* (get_gemini_client raised: no cookie left; or generate_content raised).
C20_NonStreamingOutcomes ==
    (req.pc = "done" /\ ~req.stream)
    => /\ req.result \in {"200", "400", "500"}
       /\ req.result = "400" <=> req.model \notin AVAILABLE_MODELS
       /\ req.result = "200" <=> req.generated = "ok"
       /\ req.result = "500"
             => /\ req.detail # "none"
                /\ \/ req.generated = "raised"
                   \/ req.generations = 0 /\ req.acquisitions = 1 /\ Available = <<>>

\* a non-streaming request was answered 500 because no cookie was left
C20_Witness ==
    /\ req.pc = "done"
    /\ ~req.stream
    /\ req.result = "500"
    /\ req.generations = 0
    /\ N = MaxCookies

\* what the environment holds, origin by origin: the legacy secret is set, the
\* entries of the COOKIES_JSON array, the length of the run of set
\* COOKIE_<i>_PSID from i = 1
HasLegacy(env) == env.legacy \notin {Unset, ""}
JsonCount(env) == IF env.json.kind = "array" THEN Len(env.json.entries) ELSE 0
GapFreePrefix(env) ==
    CHOOSE k \in 0..MaxSlots :
        /\ \A i \in 1..k : env.slots[i] \notin {Unset, ""}
        /\ k = MaxSlots \/ env.slots[k + 1] \in {Unset, ""}

\* COOKIES_JSON is unset, empty, unparsable, or an array of objects that all
\* have a primary secret
JsonWellFormed(env) ==
    /\ env.json.kind # "object"
    /\ \A i \in 1..Len(env.json.entries) : env.json.entries[i].has_psid

\* C21: the load appends the legacy credential, then the entries of the JSON
\* array in array order, then the numbered slots in increasing number, keeping
\* repeated secrets; every cookie of the pool is new: available, error_count 0,
\* no client.  (Legacy + an array of 2 + two slots: 5 cookies in that order.)
C21_LoadConcatenatesOrigins ==
    (boot.loaded /\ JsonWellFormed(boot.env))
    => LET env == boot.env
           l == IF HasLegacy(env) THEN 1 ELSE 0
           j == JsonCount(env)
           k == GapFreePrefix(env)
       IN  /\ Len(boot.creds) = l + j + k
           /\ Len(cookies) = l + j + k
           /\ l = 1 => /\ boot.creds[1].key = <<"SECURE_1PSID", 1>>
                        /\ boot.creds[1].psid = env.legacy
           /\ \A i \in 1..j : /\ boot.creds[l + i].key = <<"COOKIES_JSON", i>>
                                /\ boot.creds[l + i].psid = env.json.entries[i].psid
           /\ \A i \in 1..k : /\ boot.creds[l + j + i].key = <<"COOKIE_PSID", i>>
                                /\ boot.creds[l + j + i].psid = env.slots[i]
           /\ \A c \in 1..Len(cookies) :
                 /\ cookies[c].is_available
                 /\ cookies[c].error_count = 0
                 /\ cookies[c].client = NoClient

\* a legacy secret, an array of two and two numbered slots, all the same
\* secret, loaded as five cookies over a used one
C21_Witness ==
    /\ boot.loaded
    /\ boot.raised = "none"
    /\ HasLegacy(boot.env)
    /\ JsonCount(boot.env) = 2
    /\ GapFreePrefix(boot.env) = 2
    /\ Len(cookies) = 5
    /\ \A i \in 1..5 : boot.creds[i].psid = "A"

\* C22: the load raises its ValueError exactly when the three origins hold no
\* credential; whenever it raises the pool is empty, and whenever it returns
\* the pool has at least one cookie.
C22_LoadFailsIffNoCredential ==
    boot.loaded
    => /\ boot.raised = "ValueError"
             <=> ~HasLegacy(boot.env) /\ JsonCount(boot.env) = 0
                   /\ GapFreePrefix(boot.env) = 0
       /\ boot.raised # "none" => cookies = <<>>
       /\ boot.raised = "none" => Len(cookies) >= 1

\* C23: when the load reaches the scan of the numbered slots, the cookies it
\* appends from them are those of slots 1..k, k the length of the run of set
\* COOKIE_<i>_PSID from i = 1, in that order and last in the pool; a slot
\* after the first one not set gives no cookie.
C23_SlotScanStopsAtGap ==
    (boot.loaded /\ boot.raised \notin {"KeyError", "TypeError"})
    => LET k == GapFreePrefix(boot.env)
           n == Len(boot.creds)
           fromSlots == {i \in 1..n : boot.creds[i].key[1] = "COOKIE_PSID"}
       IN  /\ fromSlots = (n - k + 1)..n
           /\ \A i \in 1..k : /\ boot.creds[n - k + i].key = <<"COOKIE_PSID", i>>
                                /\ boot.creds[n - k + i].psid = boot.env.slots[i]

\* slot 1 was loaded, slot 2 is not set, and slot 3, set, gave no cookie
C23_Witness ==
    /\ boot.loaded
    /\ boot.raised = "none"
    /\ boot.env.slots[1] = "A"
    /\ boot.env.slots[2] = Unset
    /\ boot.env.slots[3] = "A"
    /\ \A i \in 1..Len(boot.creds) : boot.creds[i].key # <<"COOKIE_PSID", 3>>

\* a non-streaming request answered with a completion
Completed == req.pc = "done" /\ ~req.stream /\ req.result = "200"

\* C24 as stated: a successful non-streaming request with the one user message
\* "Hi" answers with the backend's text verbatim as content and with
\* usage.prompt_tokens equal to 1.
C24_HiCountsOneToken ==
    (Completed /\ req.messages = Hi)
    => req.content = req.text /\ req.usage.prompt_tokens = 1

\* C24 as amended: the content is the backend's text verbatim and
\* usage.prompt_tokens is 2, the words "User:" and "Hi" of the prompt; the
\* other two counts are the words of the text and the sum.
C24_HiCountsTwoTokens ==
    (Completed /\ req.messages = Hi)
    => /\ req.content = req.text
       /\ req.usage.prompt_tokens = 2
       /\ req.usage.completion_tokens = Len(split(req.text))
       /\ req.usage.total_tokens = 2 + req.usage.completion_tokens

\* "Hi" was answered with a text that has blanks at both ends
C24_Witness ==
    /\ Completed
    /\ req.messages = Hi
    /\ req.text = <<" ", "a", " ", " ", "a", " ">>
    /\ req.usage.completion_tokens = 2

\* the messages of a role that the prompt names, in input order
Named(messages) == SelectSeq(messages, LAMBDA m : m.role \in {"system", "user", "assistant"})
Entry(m) == RoleLabel(m.role) \o m.content

\* C25: the prompt is made of one entry '<RoleLabel>: <content>' for each
\* message whose role is system, user or assistant, in input order, with a
\* blank line between two entries and nothing else: a message of another role
\* contributes nothing.
C25_PromptRendersNamedRoles ==
    (req.pc # "idle" /\ KnownModel(req.model))
    => LET K == Named(req.messages)
           start[j \in 1..Len(K) + 1] ==
               IF j = 1 THEN 1 ELSE start[j - 1] + Len(Entry(K[j - 1])) + 2
       IN  /\ Len(req.prompt) = IF K = <<>> THEN 0 ELSE start[Len(K) + 1] - 3
           /\ \A j \in 1..Len(K) :
                 /\ SubSeq(req.prompt, start[j], start[j] + Len(Entry(K[j])) - 1) = Entry(K[j])
                 /\ j < Len(K) => /\ req.prompt[start[j + 1] - 2] = "\n"
                                  /\ req.prompt[start[j + 1] - 1] = "\n"

\* a tool message before an assistant message left only the assistant's entry
C25_Witness ==
    /\ req.pc # "idle" /\ KnownModel(req.model)
    /\ Len(req.messages) = 2
    /\ req.messages[1].role = "tool" /\ req.messages[1].content # <<>>
    /\ req.messages[2].role = "assistant"
    /\ req.prompt = RoleLabel("assistant") \o req.messages[2].content


\* the identities of the CookieConfig objects in self.cookies, in list order
Identities(cs) == [i \in 1..Len(cs) |-> cs[i].id]

\* C26: after load no operation of the server (selection under any policy,
\* session creation, success and failure reports, status, health check, chat
\* completion) adds, removes or reorders a cookie of the pool.
C26_PoolFixedAfterLoad ==
    [][Identities(cookies') = Identities(cookies)]_vars

\* a chat completion was answered from a full pool after a failure report on
\* its first cookie and a success report on its last
C26_Witness ==
    /\ Completed
    /\ N = MaxCookies
    /\ cookies[1].client = "failed" /\ cookies[1].error_count > 0
    /\ cookies[N].client = "ready" /\ cookies[N].last_used > 0
    /\ Identities(cookies) = [i \in 1..N |-> i]


\* C27: a round_robin selection over a non-empty filtered set F, computed at
\* the call, returns F[cursor mod |F|] and leaves the cursor at
\* (cursor + 1) mod |F|; so the cursor stays within 0..N-1 in every reachable
\* state and the selection stays inside F when F has shrunk since the
\* previous call.
C27_RoundRobinIndexesFiltered ==
    /\ [](0 <= current_index /\ current_index < N)
    /\ [][(event'.op = "round_robin" /\ Available # <<>>)
          => LET F == Available
                 k == current_index % Len(F)
             IN  /\ 0 <= k /\ k < Len(F)
                 /\ event'.cookie = F[k + 1]
                 /\ current_index' = (current_index + 1) % Len(F)
                 /\ cookies' = cookies
       ]_vars

\* of a full pool only the last cookie is left available, and a round_robin
\* selection returned it and wrapped the cursor
C27_Witness ==
    /\ event.op = "round_robin"
    /\ N = MaxCookies
    /\ Available = <<N>>
    /\ event.cookie = N
    /\ current_index = 0


\* C28: with requests interleaving at the awaited init, no health update is
\* lost: a step that ends with a success report on a cookie leaves its
\* error_count at 0, any other step adds to it the one failure report it makes
\* on the cookie, if any (so the count is that of the failure reports since
\* the last success report, or since load); and a round_robin selection reads
\* the cursor the previous selection left and advances it in the same step.
C28_NoLostHealthUpdate ==
    [][/\ \A c \in 1..N :
            cookies'[c].error_count =
                IF event'.res = "session" /\ event'.cookie = c THEN 0
                ELSE IF event'.op = "init_fail" /\ event'.failed = c
                THEN cookies[c].error_count + 1
                ELSE cookies[c].error_count
       /\ IF event'.op \in {"get_client", "init_fail"} /\ event'.cookie # None
          THEN LET F == get_available_cookies(cookies')
               IN  /\ event'.cookie = F[(current_index % Len(F)) + 1]
                   /\ current_index' = (current_index + 1) % Len(F)
          ELSE current_index' = current_index
      ]_vars

\* a request's init failed on a cookie while another request was suspended,
\* and the failure was counted
C28_Witness ==
    /\ event.op = "init_fail"
    /\ event.failed # None
    /\ cookies[event.failed].error_count = event.was + 1
    /\ inflight # EmptyBag


\* the pool after the failure report of a request whose init on c raised
AfterInitFailure(c) == mark_error(InitReturned(cookies, c, FALSE), c)

\* C29: get_client called with a tag that the code does not know behaves as
\* get_client called with round_robin: in every reachable pool state, at the
\* entry of a call and at the retry after any init failure, both tags select
\* the same cookie, move the cursor alike and leave the same pool.
C29_UnknownTagIsRoundRobin ==
    \A t \in Clock :
        /\ GetClientSync("least_recently_used", cookies, current_index, t)
             = GetClientSync("round_robin", cookies, current_index, t)
        /\ \A c \in 1..N :
             Failover("least_recently_used", AfterInitFailure(c), current_index, t)
               = Failover("round_robin", AfterInitFailure(c), current_index, t)

\* a request with the unknown tag is in its retry, suspended on a cookie that
\* get_least_used_cookie would not have returned
C29_Witness ==
    /\ \E r \in Suspensions :
          /\ r.strategy = "least_recently_used"
          /\ r.attempts >= 2
          /\ \E d \in 1..(r.cookie - 1) :
                /\ cookies[d].is_available
                /\ cookies[d].last_used <= cookies[r.cookie].last_used
    /\ event.op = "init_fail"


\* cookie g is in service and no init on it has raised (an init that raised
\* leaves its GeminiClient object in self.client)
Sound(g) == g <= N /\ cookies[g].is_available /\ cookies[g].client # "failed"

C31_AtMostOneFailurePerCookie ==
    /\ [](/\ \A c \in 1..N :
               /\ cookies[c].error_count <= 1
               /\ cookies[c].is_available
               /\ cookies[c].error_count = 1 => cookies[c].client = "failed"
          /\ event.res # "raise")
    /\ [][event'.op = "init_fail"
           => /\ cookies[event'.failed].client = "constructed"
              /\ cookies'[event'.failed].client = "failed"
              /\ \A c \in 1..N : cookies[c].client = "failed"
                                     => cookies'[c].client = "failed"
       ]_vars

\* the init of every cookie of the full pool has raised, the last failure
\* still counted, and the call was given a session
C31_Witness ==
    /\ N = MaxCookies
    /\ \A c \in 1..N : cookies[c].client = "failed" /\ cookies[c].is_available
    /\ event.op = "init_fail"
    /\ event.res = "session"
    /\ cookies[event.failed].error_count = 1


\* C32: a generate_content call that raises, in the streaming or in the
\* non-streaming path, changes nothing in the pool: the cookie whose session
\* served the request keeps the error_count = 0 and is_available = true that
\* the success report of its acquisition set, and stays among the cookies
\* that the selections choose from.
C32_GenerationFailureKeepsHealth ==
    [][event'.op = "generate_fail"
        => LET c == event.cookie
           IN  /\ event.res = "session" /\ c \in 1..N
               /\ cookies' = cookies
               /\ current_index' = current_index
               /\ inflight' = inflight
               /\ cookies'[c].error_count = 0
               /\ cookies'[c].is_available
               /\ \E k \in 1..Len(get_available_cookies(cookies')) :
                     get_available_cookies(cookies')[k] = c
    ]_vars

\* the generation of a streaming request raised on the session of the only
\* cookie, acquired at the latest time with its health reset
C32_Witness ==
    /\ event.op = "generate_fail"
    /\ req.stream /\ req.generated = "raised"
    /\ N = 1
    /\ cookies[1].client = "ready"
    /\ cookies[1].error_count = 0 /\ cookies[1].is_available
    /\ cookies[1].last_used = MaxTime


\* the loop has so far returned the first available cookies in load order, and
\* the ones it has not returned were never used: it started on a pool whose
\* available cookies all had last_used = 0
FreshSoFar ==
    LET F == Available
    IN  /\ picks = SubSeq(F, 1, Len(picks))
        /\ \A j \in (Len(picks) + 1)..Len(F) : cookies[F[j]].last_used = 0

\* C33: with strictly increasing timestamps and a success report after every
\* selection, as many consecutive least-used selections as there are available
\* cookies return distinct cookies; from a pool whose cookies all have
\* last_used = 0 they are returned in load order.
C33_LeastUsedRotates ==
    /\ [](/\ Len(picks) <= Len(Available)
          /\ \A i, j \in 1..Len(picks) : i # j => picks[i] # picks[j])
    /\ [][event'.op = "least_used"
           => /\ \A i \in 1..Len(picks) : picks[i] # event'.cookie
              /\ cookies[event'.cookie].is_available
              /\ FreshSoFar => event'.cookie = Available[Len(picks) + 1]
       ]_vars

\* the loop went once round a full pool that had been used before, and began
\* with a cookie that is not the first
C33_Witness ==
    /\ event.op = "least_used"
    /\ N = MaxCookies
    /\ Len(Available) = N
    /\ Len(picks) = N
    /\ picks[1] # 1

====
